---- MODULE Spec2Model ----
(***************************************************************************)
(* A model of the device-communication core of FINESSE:                    *)
(*   - the device registry of finesse/hardware/manage_devices.py together  *)
(*     with the listeners of finesse/gui/hardware_set/device_view.py,      *)
(*     checked under Spec;                                                 *)
(*   - the OPUS state machine of                                           *)
(*     finesse/hardware/plugins/em27/dummy_opus_interface.py, checked      *)
(*     under SpecOPUS;                                                     *)
(*   - the framed read of the TC4820 temperature controller, as its tests  *)
(*     in tests/hardware/plugins/temperature/test_tc4820.py drive it,      *)
(*     checked under SpecTC4820, and its retried request, checked under    *)
(*     SpecTC4820Request;                                                  *)
(*   - the ST10 stepper motor controller of                                *)
(*     finesse/hardware/st10_controller.py and its base class in           *)
(*     finesse/hardware/stepper_motor/stepper_motor_base.py, checked under *)
(*     SpecST10;                                                           *)
(*   - the length-framed read of the Seneca K107, as its tests in          *)
(*     tests/hardware/plugins/temperature/test_senecaK107.py drive it,     *)
(*     checked under SpecSeneca;                                           *)
(*   - the hardware set panel of                                           *)
(*     frog/gui/hardware_set/hardware_sets_view.py, checked under          *)
(*     SpecHardwareSets;                                                   *)
(*   - the FTSW500 interface of                                            *)
(*     finesse/hardware/plugins/spectrometer/ftsw500_interface.py, checked *)
(*     under SpecFTSW500.                                                  *)
(* SpecListeners is the registry with a listener of device.opening that    *)
(* may answer the message; SpecOPUSFair is SpecOPUS with the measurement   *)
(* timer's timeout delivered.                                              *)
(* Every handler is one action.  What a handler did (the calls it made and *)
(* the messages it sent, in order) is kept in a trace that is reset when   *)
(* the next handler starts, so that orderings inside one handler are state *)
(* predicates.                                                             *)
(***************************************************************************)
EXTENDS Integers, Sequences, FiniteSets, TLC

VARIABLES
    devices,    \* _devices: insertion-ordered dict, a sequence of [key, val]
    objs,       \* every Device object constructed so far, by identity 1..Len
    btn,        \* DeviceTypeControl._open_close_btn text, per instance
    trace,      \* what the handler that ran last did, in order
    last,       \* the request the handler that ran last was given
    raised,     \* the exception that handler let escape ("" for none)
    machine,    \* OPUSStateMachine: current state, timer, measurements, callbacks
    last_error, \* DummyOPUSInterface.last_error
    path,       \* the states the machine went through in the last request
    response,   \* the opus.response.<command> messages of the last request
    command,    \* the last request ("" before any; "timeout" for the timer)
    prior,      \* last_error, timer and callback count as that request began
    escaped,    \* the exception that request let escape ("" for none)
    tc_request, \* TC4820: what the last read was given (kind, value, checksum)
    tc_message, \* TC4820: the bytes serial.read_until returned to that read
    tc_result,  \* TC4820: what that read returned or raised
    tc_attempt, \* TC4820: the last request_int, its mocks and its outcome
    st10,       \* ST10Controller: the controller object and its serial port
    st10_call,  \* ST10Controller: the call made last and what it did
    seneca,     \* SenecaK107: the last read, its bytes and its outcome
    hwset,      \* HardwareSetsControl: active devices, selection, buttons
    hwset_call, \* HardwareSetsControl: the handler that ran last
    ftsw,       \* FTSW500Interface: status, timer, socket
    ftsw_call   \* FTSW500Interface: the call made last and what it did

regvars == <<devices, objs, btn, trace, last, raised>>
opusvars == <<machine, last_error, path, response, command, prior, escaped>>
tcvars == <<tc_request, tc_message, tc_result>>
retryvars == <<tc_attempt>>
st10vars == <<st10, st10_call>>
senecavars == <<seneca>>
hwvars == <<hwset, hwset_call>>
ftswvars == <<ftsw, ftsw_call>>
vars == <<devices, objs, btn, trace, last, raised,
          machine, last_error, path, response, command, prior, escaped,
          tc_request, tc_message, tc_result, tc_attempt,
          st10, st10_call, seneca, hwset, hwset_call, ftsw, ftsw_call>>

(***************************************************************************)
(* Bounds of the model.                                                    *)
(***************************************************************************)
\* Device objects constructed in one run.
MaxObjs == 2
\* Measurements started in one run.
MaxMeasure == 5
\* The largest max_attempts a TC4820 is given.
MaxAttempts == 4
\* The most reads in a row that fail before one succeeds.
MaxFail == 4
\* The reads and the writes of one ST10 call among which one can go wrong.
MaxIO == 6
\* The longest response a Seneca K107 read is given.
MaxFrame == 25

(***************************************************************************)
(* The registry: values.                                                   *)
(***************************************************************************)
\* DeviceInstanceRef(base_type, name); name "" stands for None.
Instances ==
    { [base_type |-> "stepper_motor", name |-> ""],
      [base_type |-> "temperature_controller", name |-> "hot_bb"] }

\* class_name strings "module.Class" that import_module/getattr resolve.
DeviceClasses == {"dummy.DeviceA", "dummy.DeviceB"}

\* class_name strings a caller may pass, one of them unresolvable.
ClassNames == DeviceClasses \cup {"dummy.NoSuchDevice"}

\* The params mappings a caller may pass.
ParamChoices == { [port |-> "COM1"], [port |-> "COM2"] }

NoParams == [port |-> ""]

\* The exceptions a device may raise or report.
Errors == {"SerialException"}

(***************************************************************************)
(* dict operations on an insertion-ordered sequence of [key, val].         *)
(***************************************************************************)
DictHas(d, k) == \E i \in 1..Len(d) : d[i].key = k

\* dict.get(k): the value, or 0 for None.
DictGet(d, k) ==
    IF DictHas(d, k)
    THEN d[CHOOSE i \in 1..Len(d) : d[i].key = k].val
    ELSE 0

\* d[k] = v: an existing key keeps its place, a new key goes last.
DictSet(d, k, v) ==
    IF DictHas(d, k)
    THEN [i \in 1..Len(d) |-> IF d[i].key = k THEN [key |-> k, val |-> v] ELSE d[i]]
    ELSE Append(d, [key |-> k, val |-> v])

\* d without key k (the dict after d.pop(k)).
DictPop(d, k) == SelectSeq(d, LAMBDA e : e.key # k)

\* list(d.values())
DictValues(d) == [i \in 1..Len(d) |-> d[i].val]

(***************************************************************************)
(* The trace of a handler.  reg is the device _devices holds for inst at   *)
(* the moment of the entry.                                                *)
(***************************************************************************)
Entry(s, k, inst) ==
    [k |-> k, inst |-> inst, dev |-> 0, cls |-> "", params |-> NoParams,
     error |-> "", reg |-> DictGet(s.devices, inst)]

Emit(s, e) == [s EXCEPT !.trace = Append(@, e)]

(***************************************************************************)
(* Device objects.                                                         *)
(***************************************************************************)
\* The object cls(**params) returns; close_raises: whether its close() raises.
NewDevice(class_name, instance, close_raises) ==
    [cls |-> class_name, inst |-> instance, closes |-> 0,
     close_raises |-> close_raises]

\* Device.get_instance_ref(): the instance reference the device belongs to.
get_instance_ref(device) == device.inst

\* device.close(): the attempt is counted; the exception, if any, is raised.
device_close(s, dev) ==
    LET s1 == Emit(s, [Entry(s, "close", s.objs[dev].inst) EXCEPT !.dev = dev])
    IN  [s1 EXCEPT !.objs[dev].closes = @ + 1,
                   !.raised = IF s.objs[dev].close_raises THEN "CloseError" ELSE ""]

(***************************************************************************)
(* The listeners of DeviceTypeControl (one control per instance).          *)
(***************************************************************************)
\* _set_device_opened, by way of _on_device_opened
_on_device_opened(s, instance, class_name, params) ==
    [s EXCEPT !.btn[instance] = "Close"]

_set_device_closed(s, instance) ==
    [s EXCEPT !.btn[instance] = "Open"]

\* The dialog is shown: the entry keeps what the registry holds at that time.
_show_error_message(s, instance, error) ==
    Emit(s, [Entry(s, "shown", instance) EXCEPT !.error = error])

(***************************************************************************)
(* pub.sendMessage of the registry's topics.  The bus delivers a message   *)
(* of topic device.<event>.<instance topic> to the listeners of that topic *)
(* first and then to the listeners of its parent topic device.<event>.     *)
(***************************************************************************)
send_closed(s, instance) ==
    _set_device_closed(Emit(s, Entry(s, "closed", instance)), instance)

\* Mutant: no except clause around device.close().
_try_close_device_uncaught(s, dev) ==
    LET s1 == device_close(s, dev)
    IN  IF s1.raised # "" THEN s1
        ELSE send_closed(s1, get_instance_ref(s1.objs[dev]))

_try_close_device(s, dev) ==
    LET s1 == device_close(s, dev)
        \* except Exception: logged, not re-raised
        s2 == [s1 EXCEPT !.raised = ""]
    IN  send_closed(s2, get_instance_ref(s2.objs[dev]))

\* Mutant: an absent instance raises KeyError to the caller.
_close_device_strict(s, instance) ==
    IF DictHas(s.devices, instance)
    THEN _try_close_device([s EXCEPT !.devices = DictPop(@, instance)],
                           DictGet(s.devices, instance))
    ELSE [s EXCEPT !.raised = "KeyError"]

_close_device(s, instance) ==
    IF DictHas(s.devices, instance)
    THEN _try_close_device([s EXCEPT !.devices = DictPop(@, instance)],
                           DictGet(s.devices, instance))
    ELSE s  \* except KeyError: pass

\* Mutant: errors are not fatal.
_on_device_error_ignore(s, instance, error) == s

_on_device_error(s, instance, error) == _close_device(s, instance)

\* Mutant: the registry's listener runs before the control's.
send_error_parent_first(s, instance, error) ==
    LET s1 == Emit(s, [Entry(s, "error", instance) EXCEPT !.error = error])
    IN  _show_error_message(_on_device_error(s1, instance, error), instance, error)

send_error(s, instance, error) ==
    LET s1 == Emit(s, [Entry(s, "error", instance) EXCEPT !.error = error])
        \* device.error.<topic>: DeviceTypeControl._show_error_message
        s2 == _show_error_message(s1, instance, error)
        \* device.error: the registry's _on_device_error
    IN  _on_device_error(s2, instance, error)

\* A further listener of device.opening.<topic>; s.reaction is what it does
\* with the message: nothing, or publish a device error or a close request.
opening_listener(s, instance) ==
    CASE s.reaction = "error" -> send_error(s, instance, "SerialException")
      [] s.reaction = "close" -> _close_device(s, instance)
      [] OTHER -> s

send_opening(s, instance, class_name, params) ==
    LET s1 == Emit(s, [Entry(s, "opening", instance)
                         EXCEPT !.cls = class_name, !.params = params])
    IN  opening_listener(_on_device_opened(s1, instance, class_name, params),
                         instance)

send_opened(s, instance) == Emit(s, Entry(s, "opened", instance))

(***************************************************************************)
(* _open_device                                                            *)
(***************************************************************************)
\* Mutant: the existing device is overwritten without being closed.
replace_existing_unclosed(s, instance) == s

\* if device := _devices.get(instance): _try_close_device(device)
replace_existing(s, instance) ==
    IF DictGet(s.devices, instance) # 0
    THEN _try_close_device(s, DictGet(s.devices, instance))
    ELSE s

\* params | {"name": instance.name} when the instance has a name
with_name(instance, params) ==
    IF instance.name # ""
    THEN [name |-> instance.name] @@ params
    ELSE params

\* Mutant: the error is published and then re-raised.
construct_failed_reraise(s, instance, error) ==
    [send_error(Emit(s, [Entry(s, "construct", instance) EXCEPT !.error = error]),
                instance, error) EXCEPT !.raised = error]

\* cls(**params) raised: except Exception, the error message is sent
construct_failed(s, instance, error) ==
    send_error(Emit(s, [Entry(s, "construct", instance) EXCEPT !.error = error]),
               instance, error)

\* Mutant: the opening message carries the params the device was given.
constructed_injected_params(s, instance, class_name, params, close_raises) ==
    LET dev == Len(s.objs) + 1
        given == with_name(instance, params)
        s1 == Emit(s, [Entry(s, "construct", instance)
                         EXCEPT !.dev = dev, !.cls = class_name,
                                !.params = given])
        s2 == [s1 EXCEPT !.objs = Append(@, NewDevice(class_name, instance,
                                                      close_raises)),
                         !.devices = DictSet(@, instance, dev)]
    IN  send_opened(send_opening(s2, instance, class_name, given), instance)

\* _devices[instance] = cls(**params) succeeded: opening, then opened
constructed(s, instance, class_name, params, close_raises) ==
    LET params_orig == params
        dev == Len(s.objs) + 1
        given == with_name(instance, params)
        s1 == Emit(s, [Entry(s, "construct", instance)
                         EXCEPT !.dev = dev, !.cls = class_name,
                                !.params = given])
        s2 == [s1 EXCEPT !.objs = Append(@, NewDevice(class_name, instance,
                                                      close_raises)),
                         !.devices = DictSet(@, instance, dev)]
    IN  send_opened(send_opening(s2, instance, class_name, params_orig),
                    instance)

\* Mutant: the new device is constructed before the old one is closed.
_open_device_close_after(s, instance, class_name, params, ctor, close_raises) ==
    IF class_name \notin DeviceClasses
    THEN [s EXCEPT !.raised = "AttributeError"]
    ELSE LET old == DictGet(s.devices, instance)
             s1 == IF ctor # "ok"
                   THEN construct_failed(s, instance, ctor)
                   ELSE constructed(s, instance, class_name, params, close_raises)
         IN  IF old # 0 /\ ctor = "ok" THEN _try_close_device(s1, old) ELSE s1

\* Mutant: the class is looked up after the existing device was closed.
_open_device_resolve_late(s, instance, class_name, params, ctor, close_raises) ==
    LET s1 == replace_existing(s, instance)
    IN  IF class_name \notin DeviceClasses
        THEN [s1 EXCEPT !.raised = "AttributeError"]
        ELSE IF ctor # "ok"
             THEN construct_failed(s1, instance, ctor)
             ELSE constructed(s1, instance, class_name, params, close_raises)

\* ctor is "ok" or the exception the constructor raises.
_open_device(s, instance, class_name, params, ctor, close_raises) ==
    IF class_name \notin DeviceClasses
    THEN \* getattr(import_module(module), class_name_part) raises
         [s EXCEPT !.raised = "AttributeError"]
    ELSE LET s1 == replace_existing(s, instance)
         IN  IF ctor # "ok"
             THEN construct_failed(s1, instance, ctor)
             ELSE constructed(s1, instance, class_name, params, close_raises)

(***************************************************************************)
(* _close_all_devices                                                      *)
(***************************************************************************)
RECURSIVE close_each_abort(_, _)
\* Mutant: the first close() that raises ends the loop.
close_each_abort(s, devs) ==
    IF devs = <<>> THEN s
    ELSE LET s1 == _try_close_device_uncaught(s, Head(devs))
         IN  IF s1.raised # "" THEN s1 ELSE close_each_abort(s1, Tail(devs))

RECURSIVE close_each(_, _)
\* for device in _devices.values(): _try_close_device(device)
close_each(s, devs) ==
    IF devs = <<>> THEN s
    ELSE close_each(_try_close_device(s, Head(devs)), Tail(devs))

_close_all_devices(s) ==
    [close_each(s, DictValues(s.devices)) EXCEPT !.devices = <<>>]

(***************************************************************************)
(* The registry as a state machine: one action per subscribed topic.       *)
(***************************************************************************)
NoInstance == [base_type |-> "", name |-> ""]

\* The handler's view of the state as it starts.
Registry ==
    [devices |-> devices, objs |-> objs, btn |-> btn, trace |-> <<>>,
     raised |-> "", reaction |-> "none"]

Request(op, instance, class_name, params, error) ==
    [op |-> op, inst |-> instance, cls |-> class_name, params |-> params,
     error |-> error, pre |-> devices, nobjs |-> Len(objs)]

Commit(s, l) ==
    /\ devices' = s.devices
    /\ objs' = s.objs
    /\ btn' = s.btn
    /\ trace' = s.trace
    /\ raised' = s.raised
    /\ last' = l
    /\ UNCHANGED <<opusvars, tcvars, retryvars, st10vars, senecavars, hwvars, ftswvars>>

\* pub.sendMessage("device.open", instance, class_name, params)
OpenDevice ==
    \E instance \in Instances, class_name \in ClassNames,
       params \in ParamChoices, ctor \in {"ok"} \cup Errors,
       close_raises \in BOOLEAN :
        /\ ctor = "ok" => Len(objs) < MaxObjs
        /\ ctor # "ok" => ~close_raises  \* no device, nothing to describe
        /\ Commit(_open_device(Registry, instance, class_name, params, ctor,
                               close_raises),
                  Request("open", instance, class_name, params, ""))

\* device.open with a listener of device.opening that may react
OpenDeviceReacting ==
    \E instance \in Instances, class_name \in DeviceClasses,
       params \in ParamChoices, reaction \in {"none", "error", "close"} :
        /\ Len(objs) < MaxObjs
        /\ Commit(_open_device([Registry EXCEPT !.reaction = reaction],
                               instance, class_name, params, "ok", FALSE),
                  Request("open", instance, class_name, params, ""))

\* pub.sendMessage("device.close", instance)
CloseDevice ==
    \E instance \in Instances :
        Commit(_close_device(Registry, instance),
               Request("close", instance, "", NoParams, ""))

\* pub.sendMessage(f"device.error.{instance.topic}", instance, error)
DeviceError ==
    \E instance \in Instances, error \in Errors :
        Commit(send_error(Registry, instance, error),
               Request("error", instance, "", NoParams, error))

\* pub.sendMessage("window.closed")
WindowClosed ==
    Commit(_close_all_devices(Registry),
           Request("closeAll", NoInstance, "", NoParams, ""))

RegInit ==
    /\ devices = <<>>
    /\ objs = <<>>
    /\ btn = [i \in Instances |-> "Open"]
    /\ trace = <<>>
    /\ raised = ""
    /\ last = [op |-> "", inst |-> NoInstance, cls |-> "", params |-> NoParams,
               error |-> "", pre |-> <<>>, nobjs |-> 0]

(***************************************************************************)
(* OPUSStateMachine                                                        *)
(***************************************************************************)
States == {"idle", "connecting", "connected", "measuring", "finishing",
           "cancelling"}

\* State(name, ...): the label of each state.
StateName ==
    [idle |-> "Idle", connecting |-> "Connecting", connected |-> "Connected",
     measuring |-> "Measuring", finishing |-> "Finishing current measurement",
     cancelling |-> "Cancelling"]

\* Mutant: start is also allowed from idle.
TransitionsStartFromIdle ==
    [_start_connecting |-> [source |-> {"idle"}, dest |-> "connecting"],
     _finish_connecting |-> [source |-> {"connecting"}, dest |-> "connected"],
     start |-> [source |-> {"idle", "connected"}, dest |-> "measuring"],
     _start_finishing_measuring |-> [source |-> {"measuring"}, dest |-> "finishing"],
     _finish_measuring |-> [source |-> {"finishing"}, dest |-> "connected"],
     _cancel_measuring |-> [source |-> {"measuring"}, dest |-> "cancelling"],
     _reset_after_cancelling |-> [source |-> {"cancelling"}, dest |-> "connected"]]

\* The transitions the class declares: event |-> source.to(dest).
Transitions ==
    [_start_connecting |-> [source |-> {"idle"}, dest |-> "connecting"],
     _finish_connecting |-> [source |-> {"connecting"}, dest |-> "connected"],
     start |-> [source |-> {"connected"}, dest |-> "measuring"],
     _start_finishing_measuring |-> [source |-> {"measuring"}, dest |-> "finishing"],
     _finish_measuring |-> [source |-> {"finishing"}, dest |-> "connected"],
     _cancel_measuring |-> [source |-> {"measuring"}, dest |-> "cancelling"],
     _reset_after_cancelling |-> [source |-> {"cancelling"}, dest |-> "connected"]]

\* DummyOPUSInterface._measuring_finished, the machine's measure_finish_callback
_measuring_finished(o) ==
    [o EXCEPT !.last_error = "NO_ERROR", !.calls = @ + 1]

\* Mutant: the measurement timer is not started.
on_enter_measuring_no_timer(o) == [o EXCEPT !.started = @ + 1]

\* measure_timer.start()
on_enter_measuring(o) == [o EXCEPT !.timer = TRUE, !.started = @ + 1]

\* Mutant: the callback is not invoked.
on_exit_measuring_no_callback(o) == [o EXCEPT !.timer = FALSE]

\* Mutant: the timer is left running.
on_exit_measuring_timer_running(o) == _measuring_finished(o)

\* measure_timer.stop(), then the callback
on_exit_measuring(o) == _measuring_finished([o EXCEPT !.timer = FALSE])

\* One event of the machine: TransitionNotAllowed unless the current state is
\* the transition's source; else the source's exit callback, the state
\* change, the target's enter callback.  An exception already raised skips it.
Fire(o, event) ==
    IF o.raised # "" THEN o
    ELSE IF o.state \notin Transitions[event].source
    THEN [o EXCEPT !.raised = "TransitionNotAllowed"]
    ELSE LET dest == Transitions[event].dest
             o1 == IF o.state = "measuring" THEN on_exit_measuring(o) ELSE o
             o2 == [o1 EXCEPT !.state = dest, !.path = Append(@, dest)]
         IN  IF dest = "measuring" THEN on_enter_measuring(o2) ELSE o2

\* Mutant: connect returns with the machine still connecting.
connect_half(o) == Fire(o, "_start_connecting")

connect(o) == Fire(Fire(o, "_start_connecting"), "_finish_connecting")

start(o) == Fire(o, "start")

cancel(o) == Fire(Fire(o, "_cancel_measuring"), "_reset_after_cancelling")

stop(o) == Fire(Fire(o, "_start_finishing_measuring"), "_finish_measuring")

(***************************************************************************)
(* DummyOPUSInterface                                                      *)
(***************************************************************************)
\* OPUSErrorInfo: the code of each error.
OPUSErrorInfo ==
    [NO_ERROR |-> 0, NOT_IDLE |-> 1, NOT_RUNNING |-> 2,
     NOT_RUNNING_OR_FINISHING |-> 3, UNKNOWN_COMMAND |-> 4,
     WEBSITE_NOT_FOUND |-> 5, NO_RESULT |-> 6, NOT_CONNECTED |-> 7]

\* OPUSErrorInfo.to_tuple: <<>> stands for None.
to_tuple(error) ==
    IF error = "NO_ERROR" THEN <<>> ELSE <<OPUSErrorInfo[error], error>>

_COMMAND_ERRORS ==
    [cancel |-> "NOT_RUNNING", stop |-> "NOT_RUNNING_OR_FINISHING",
     start |-> "NOT_CONNECTED", connect |-> "NOT_IDLE"]

\* The strings a caller may send as a command.
Commands == {"connect", "start", "stop", "cancel", "status", "reset"}

\* getattr(self.state_machine, command)()
Call(o, cmd) ==
    CASE cmd = "connect" -> connect(o)
      [] cmd = "start" -> start(o)
      [] cmd = "stop" -> stop(o)
      [] cmd = "cancel" -> cancel(o)

\* Mutant: TransitionNotAllowed is not caught.
_run_command_uncaught(o, cmd) == Call([o EXCEPT !.last_error = "NO_ERROR"], cmd)

\* Mutant: last_error is not reset before the command runs.
_run_command_keep_error(o, cmd) ==
    LET o1 == Call(o, cmd)
    IN  IF o1.raised = "TransitionNotAllowed"
        THEN [o1 EXCEPT !.raised = "", !.last_error = _COMMAND_ERRORS[cmd]]
        ELSE o1

_run_command(o, cmd) ==
    LET o1 == Call([o EXCEPT !.last_error = "NO_ERROR"], cmd)
    IN  IF o1.raised = "TransitionNotAllowed"
        THEN [o1 EXCEPT !.raised = "", !.last_error = _COMMAND_ERRORS[cmd]]
        ELSE o1

\* Mutant: status in idle reports nothing.
status_command_silent(o) == o

\* if command == "status": the machine is only looked at
status_command(o) ==
    IF o.state = "idle" THEN [o EXCEPT !.last_error = "NOT_CONNECTED"] ELSE o

\* Mutant: an unknown command is looked up on the machine like the others.
unknown_command_lookup(o) == [o EXCEPT !.raised = "AttributeError"]

\* else: self.last_error = OPUSErrorInfo.UNKNOWN_COMMAND
unknown_command(o) == [o EXCEPT !.last_error = "UNKNOWN_COMMAND"]

\* pub.sendMessage(f"opus.response.{command}", status, text, error); status
\* is the state's value, written here as the state itself.
send_response(o, cmd) ==
    IF o.raised # "" THEN o
    ELSE [o EXCEPT !.response =
            Append(@, [command |-> cmd, status |-> o.state,
                       text |-> StateName[o.state],
                       error |-> to_tuple(o.last_error)])]

\* The if/elif/else of request_command.
handle_command(o, cmd) ==
    IF cmd = "status" THEN status_command(o)
    ELSE IF cmd \in DOMAIN _COMMAND_ERRORS THEN _run_command(o, cmd)
    ELSE unknown_command(o)

\* Mutant: the response is sent before the command is handled.
request_command_reply_first(o, cmd) ==
    handle_command(send_response(o, cmd), cmd)

request_command(o, cmd) == send_response(handle_command(o, cmd), cmd)

(***************************************************************************)
(* The OPUS interface as a state machine.                                  *)
(***************************************************************************)
\* The handler's view of the state as it starts.
Opus ==
    [state |-> machine.state, timer |-> machine.timer,
     started |-> machine.started, calls |-> machine.calls,
     last_error |-> last_error, path |-> <<machine.state>>,
     response |-> <<>>, raised |-> ""]

OpusCommit(o, cmd) ==
    /\ machine' = [state |-> o.state, timer |-> o.timer,
                   started |-> o.started, calls |-> o.calls]
    /\ last_error' = o.last_error
    /\ path' = o.path
    /\ response' = o.response
    /\ command' = cmd
    /\ prior' = [last_error |-> last_error, timer |-> machine.timer,
                 calls |-> machine.calls]
    /\ escaped' = o.raised
    /\ UNCHANGED <<regvars, tcvars, retryvars, st10vars, senecavars, hwvars, ftswvars>>

\* pub.sendMessage("opus.request.command", command=cmd)
RequestCommand ==
    \E cmd \in Commands :
        /\ (cmd = "start" /\ machine.state = "connected")
               => machine.started < MaxMeasure
        /\ OpusCommit(request_command(Opus, cmd), cmd)

\* measure_timer.timeout, single shot, connected to stop
TimerTimeout ==
    /\ machine.timer
    /\ OpusCommit(stop([Opus EXCEPT !.timer = FALSE]), "timeout")

OpusInit ==
    /\ machine = [state |-> "idle", timer |-> FALSE, started |-> 0, calls |-> 0]
    /\ last_error = "NO_ERROR"
    /\ path = <<"idle">>
    /\ response = <<>>
    /\ command = ""
    /\ prior = [last_error |-> "NO_ERROR", timer |-> FALSE, calls |-> 0]
    /\ escaped = ""

(***************************************************************************)
(* TC4820: frames are sequences of ASCII codes.                            *)
(***************************************************************************)
RECURSIVE Sum(_)
\* sum(bytes)
Sum(bytes) == IF bytes = <<>> THEN 0 ELSE Head(bytes) + Sum(Tail(bytes))

RECURSIVE Pow16(_)
Pow16(n) == IF n = 0 THEN 1 ELSE 16 * Pow16(n - 1)

\* The character of one hex digit as format(..., "x") writes it: 0-9, a-f.
HexChar(d) == IF d < 10 THEN 48 + d ELSE 87 + d

RECURSIVE Digits(_)
\* The number of hex digits of n.
Digits(n) == IF n < 16 THEN 1 ELSE 1 + Digits(n \div 16)

\* f"{n:0{width}x}".encode("ascii"): at least width digits, zero-padded.
Hex(n, width) ==
    LET w == IF Digits(n) > width THEN Digits(n) ELSE width
    IN  [i \in 1..w |-> HexChar((n \div Pow16(w - i)) % 16)]

\* The value of one hex digit as int(..., base=16) reads it, -1 if it is none.
HexVal(c) ==
    IF c \in 48..57 THEN c - 48
    ELSE IF c \in 97..102 THEN c - 87
    ELSE IF c \in 65..70 THEN c - 55
    ELSE -1

IsHex(bytes) == \A i \in 1..Len(bytes) : HexVal(bytes[i]) >= 0

RECURSIVE FromHex(_)
\* int(bytes, base=16) of hex digits
FromHex(bytes) ==
    IF bytes = <<>> THEN 0
    ELSE 16 * FromHex(SubSeq(bytes, 1, Len(bytes) - 1)) + HexVal(bytes[Len(bytes)])

\* The tests' checksum(message): sum(f"{message:04x}".encode("ascii")) & 0xFF
checksum(message) == Sum(Hex(message, 4)) % 256

\* Mutant: the value is written without its leading zeros.
format_message_unpadded(message, csum, eol) ==
    <<42>> \o Hex(message, 1) \o Hex(csum, 2) \o <<eol>>

\* The tests' format_message: "*", 4 hex digits, 2 hex digits, eol.
format_message(message, csum, eol) ==
    <<42>> \o Hex(message, 4) \o Hex(csum, 2) \o <<eol>>

\* TC4820.read on the bytes read_until returned: the value, or
\* MalformedMessageError unless the frame is "*", 4 hex digits, 2 hex digits
\* that are the low byte of the sum of the 4 payload bytes, and "^".
read(message) ==
    LET payload == SubSeq(message, 2, 5)
        csum == SubSeq(message, 6, 7)
    IN  IF /\ Len(message) = 8
           /\ message[1] = 42
           /\ message[8] = 94
           /\ payload # <<88, 88, 88, 88>>
           /\ IsHex(payload)
           /\ IsHex(csum)
           /\ FromHex(csum) = Sum(payload) % 256
        THEN [raised |-> "", value |-> FromHex(payload)]
        ELSE [raised |-> "MalformedMessageError", value |-> -1]

\* The values read: the tests' 0x0000, 0x1234 and 0x5678, and 0xffff, whose
\* digits sum past one byte.
TcValues == {0, 4660, 22136, 65535}

\* The tests' _TERM_CHARS: "*", "^" and every tenth ASCII character.
TermChars == {42, 94} \cup {c \in 0..127 : c % 10 = 0}

\* The tests' _MESSAGE[:len], len in 1..8, as bytes.
MessagePrefix(len) == [i \in 1..len |-> 48 + (i - 1)]

\* The bytes of a frame as the tests write them out.
Frame(start_char, payload, csum, end_char) ==
    <<start_char>> \o payload \o Hex(csum, 2) \o <<end_char>>

TcCommit(kind, value, csum, message) ==
    /\ tc_request' = [kind |-> kind, value |-> value, checksum |-> csum]
    /\ tc_message' = message
    /\ tc_result' = read(message)
    /\ UNCHANGED <<regvars, opusvars, retryvars, st10vars, senecavars, hwvars, ftswvars>>

\* test_read, "Test checksums": every value with every 8-bit checksum
ReadFrame ==
    \E value \in TcValues, csum \in 0..255 :
        TcCommit("frame", value, csum, format_message(value, csum, 94))

\* test_read, start and end characters around 0000c0
ReadTerminators ==
    \E start_char \in TermChars, end_char \in TermChars :
        TcCommit("terminators", 0, checksum(0),
                 Frame(start_char, Hex(0, 4), checksum(0), end_char))

\* test_read, "Message length": _get_message(len) for payloads of 1 to 8 digits
ReadLength ==
    \E len \in 1..8 :
        LET value == FromHex(MessagePrefix(len))
        IN  TcCommit("length", value, checksum(value),
                     Frame(42, MessagePrefix(len), checksum(value), 94))

\* test_read, *XXXX60^ and *$$$$90^
ReadPayload ==
    \E c \in {88, 36} :
        TcCommit("payload", 0, (4 * c) % 256,
                 Frame(42, <<c, c, c, c>>, (4 * c) % 256, 94))

TcInit ==
    /\ tc_request = [kind |-> "", value |-> 0, checksum |-> 0]
    /\ tc_message = <<>>
    /\ tc_result = [raised |-> "", value |-> -1]

(***************************************************************************)
(* TC4820: request_int with its read and write replaced by mocks.          *)
(***************************************************************************)
\* The commands of the property getters.
TcCommands == {"010000", "020000", "030000", "500000"}

\* Mutant: the read never fails.
my_read_never_fails(q) == [q EXCEPT !.reads = @ + 1, !.result = q.value]

\* The tests' my_read: raise MalformedMessageError the first fail_max times
\* it is called, return the value afterwards.
my_read(q) ==
    IF q.fail_count < q.fail_max
    THEN [q EXCEPT !.reads = @ + 1, !.fail_count = @ + 1,
                   !.raised = "MalformedMessageError"]
    ELSE [q EXCEPT !.reads = @ + 1, !.result = q.value]

\* The mock of TC4820.write: it records what it was called with.
write_mock(q, message) == [q EXCEPT !.writes = Append(@, message)]

RECURSIVE attempt(_, _, _)
\* One round of request_int's loop with n attempts left.
attempt(q, message, n) ==
    IF n = 0 THEN [q EXCEPT !.raised = "SerialException"]
    ELSE LET r == my_read(write_mock(q, message))
         IN  IF r.raised = "MalformedMessageError"
             THEN attempt([r EXCEPT !.raised = ""], message, n - 1)
             ELSE r

\* TC4820.request_int: write the command and read the reply, again after
\* every MalformedMessageError, max_attempts times at most; SerialException
\* when every attempt failed.
request_int(q, message) == attempt(q, message, q.max_attempts)

\* TC4820(serial, "hot_bb", max_attempts) with read and write mocked.
NewTC4820(max_attempts, fail_max, value) ==
    [max_attempts |-> max_attempts, fail_max |-> fail_max, value |-> value,
     fail_count |-> 0, reads |-> 0, writes |-> <<>>, result |-> -1,
     raised |-> "", message |-> ""]

\* test_request_int
RequestInt ==
    \E max_attempts \in 1..MaxAttempts, fail_max \in 0..MaxFail,
       message \in TcCommands, value \in TcValues :
        /\ tc_attempt' =
             [request_int(NewTC4820(max_attempts, fail_max, value), message)
                 EXCEPT !.message = message]
        /\ UNCHANGED <<regvars, opusvars, tcvars, st10vars, senecavars, hwvars, ftswvars>>

RetryInit == tc_attempt = NewTC4820(1, 0, 0)

(***************************************************************************)
(* ST10: values.  A line is a sequence of one-character strings; what      *)
(* read_until returns ends with CR, or is empty when the read timed out.   *)
(***************************************************************************)
\* ST10Controller.STEPS_PER_ROTATION
STEPS_PER_ROTATION == 50800

\* Angles are counted in tenths of a degree: 270.0 is 270 * AngleUnit.
AngleUnit == 10

\* serial.timeout = None: wait forever.
NoTimeout == -1

CR == "<CR>"
\* A byte that is not ASCII.
NonAscii == "<FF>"

\* "107F024"
DeviceId == <<"1", "0", "7", "F", "0", "2", "4">>

\* config.ANGLE_PRESETS, in tenths of a degree.
ANGLE_PRESETS == [nadir |-> 0, hot_bb |-> 2700]

\* A message for the device: a mnemonic followed by a number (FL, FP) or by
\* a string (SS); n is 0 and s is "" where the message has none.
Msg(op, n, s) == [op |-> op, n |-> n, s |-> s]

\* The characters of the variable names that are queried.
NameChars == [IS |-> <<"I", "S">>]

\* What one call of serial.read_until gives: bytes, or an exception.
Bytes(raw) == [err |-> "", raw |-> raw]

IOError == [err |-> "SerialException", raw |-> <<>>]

\* The input status array as the device reports it.
StatusBits(bit3) ==
    <<"0", "0", "0", IF bit3 THEN "1" ELSE "0", "0", "0", "0", "0">>

\* What the device sends back for a message: its identity for MV, the
\* input status for IS, the acknowledgement % and later the string for SS,
\* the acknowledgement % for everything else.
Answer(msg, c) ==
    IF msg.op = "MV" THEN <<Bytes(DeviceId \o <<CR>>)>>
    ELSE IF msg.op = "IS"
         THEN <<Bytes(NameChars.IS \o <<"=">> \o StatusBits(c.bit3) \o <<CR>>)>>
    ELSE IF msg.op = "SS" THEN <<Bytes(<<"%", CR>>), Bytes(<<msg.s, CR>>)>>
    ELSE <<Bytes(<<"%", CR>>)>>

\* What a read can be given in place of the device's answer.
Replies ==
    { IOError, Bytes(<<>>), Bytes(<<NonAscii, CR>>), Bytes(<<CR>>),
      Bytes(<<"%", CR>>), Bytes(<<"*", CR>>), Bytes(<<"?", "4", CR>>),
      Bytes(<<"x", CR>>), Bytes(<<"X", CR>>), Bytes(<<"Z", CR>>),
      Bytes(<<"I", "S", "=", "0", CR>>) }

NoFault == [at_read |-> 0, reply |-> IOError, at_write |-> 0]

\* One thing differs from the device's answers in a call: the read numbered
\* at_read is given reply, or the write numbered at_write raises
\* SerialException; n is the number of reads and writes the call can make.
Faults(n) ==
    {NoFault}
    \cup {[at_read |-> i, reply |-> r, at_write |-> 0] :
             i \in 1..n, r \in Replies}
    \cup {[at_read |-> 0, reply |-> IOError, at_write |-> i] : i \in 1..n}

\* The state a call works on: the serial port and the device behind it, and
\* what the call has done so far.
ST10Call(timeout, ready, bit3, fault, op_error) ==
    [timeout |-> timeout, ready |-> ready, bit3 |-> bit3,
     fault |-> fault, op_error |-> op_error, out |-> <<>>,
     written |-> <<>>, got |-> <<>>, timeouts |-> <<>>,
     raised |-> "", detail |-> "", thrown |-> <<>>, ret |-> <<>>,
     flag |-> FALSE, angle |-> 0, old_timeout |-> timeout,
     errors |-> <<>>, logged |-> <<>>, pending |-> FALSE, ended |-> 0,
     identified |-> FALSE]

\* raise exc
Raise(c, exc, detail) ==
    [c EXCEPT !.raised = exc, !.detail = detail, !.thrown = Append(@, exc)]

\* round(num / den) as Python rounds, ties to the even integer; den > 0.
Round(num, den) ==
    LET q == num \div den
        r == num % den
    IN  IF 2 * r < den THEN q
        ELSE IF 2 * r > den THEN q + 1
        ELSE IF q % 2 = 0 THEN q ELSE q + 1

(***************************************************************************)
(* ST10: the methods.  Each takes the call's state and gives it back; once *)
(* an exception is raised the rest of the method is skipped.               *)
(***************************************************************************)
\* ST10Controller._write
_write(c, msg) ==
    IF c.raised # "" THEN c
    ELSE LET w == [c EXCEPT !.written = Append(@, msg)]
         IN  IF Len(w.written) = c.fault.at_write
             THEN Raise(w, "SerialException", "write")
             ELSE [w EXCEPT !.out = @ \o Answer(msg, c)]

\* serial.read_until(b"\r")
read_until(c) ==
    IF Len(c.got) + 1 = c.fault.at_read THEN c.fault.reply
    ELSE IF c.out = <<>> THEN Bytes(<<>>)
    ELSE Head(c.out)

\* ST10Controller._read
_read(c) ==
    IF c.raised # "" THEN c
    ELSE LET raw == read_until(c)
             r == [c EXCEPT !.got = Append(@, raw),
                            !.timeouts = Append(@, c.timeout),
                            !.out = IF @ = <<>> THEN @ ELSE Tail(@)]
         IN  IF raw.err # "" THEN Raise(r, raw.err, "read")
             ELSE IF raw.raw = <<>>
                  THEN Raise(r, "SerialTimeoutException", "read")
             ELSE IF \E i \in 1..Len(raw.raw) : raw.raw[i] = NonAscii
                  THEN Raise(r, "ST10ControllerError", "invalid message")
             ELSE [r EXCEPT !.ret = SubSeq(raw.raw, 1, Len(raw.raw) - 1)]

\* ST10Controller._check_response
_check_response(c) ==
    LET r == _read(c)
    IN  IF r.raised # "" THEN r
        ELSE IF r.ret = <<"%">> \/ r.ret = <<"*">> THEN r
        ELSE IF r.ret = <<>> THEN Raise(r, "IndexError", "response[0]")
        ELSE IF r.ret[1] = "?"
             THEN Raise(r, "ST10ControllerError", "device error")
        ELSE Raise(r, "ST10ControllerError", "unexpected response")

\* ST10Controller._write_check
_write_check(c, msg) == _check_response(_write(c, msg))

\* ST10Controller._request_value
_request_value(c, name) ==
    LET r == _read(_write(c, Msg(name, 0, "")))
        prefix == NameChars[name] \o <<"=">>
    IN  IF r.raised # "" THEN r
        ELSE IF \/ Len(r.ret) < Len(prefix)
                \/ SubSeq(r.ret, 1, Len(prefix)) # prefix
             THEN Raise(r, "ST10ControllerError", "unexpected value")
        ELSE [r EXCEPT !.ret = SubSeq(r.ret, Len(prefix) + 1, Len(r.ret))]

\* ST10Controller._get_input_status
_get_input_status(c, index) ==
    LET r == _request_value(c, "IS")
    IN  IF r.raised # "" THEN r
        ELSE IF index + 1 > Len(r.ret)
             THEN Raise(r, "IndexError", "input_status[index]")
        ELSE [r EXCEPT !.flag = (r.ret[index + 1] = "1")]

\* ST10Controller._relative_move
_relative_move(c, steps) == _write_check(c, Msg("FL", steps, ""))

\* Mutant: the calibration move is made whatever the input status says.
home_always_calibrates(c) ==
    LET s == _get_input_status(c, 3)
    IN  _write_check(
            _relative_move(
                _write_check(_relative_move(s, -5000), Msg("SH6H", 0, "")),
                -30130),
            Msg("SP0", 0, ""))

\* ST10Controller.home
home(c) ==
    LET s == _get_input_status(c, 3)
        m == IF s.raised = "" /\ s.flag THEN _relative_move(s, -5000) ELSE s
    IN  _write_check(
            _relative_move(_write_check(m, Msg("SH6H", 0, "")), -30130),
            Msg("SP0", 0, ""))

\* Mutant: any identity is accepted.
_check_device_id_any(c) == _read(_write(c, Msg("MV", 0, "")))

\* ST10Controller._check_device_id
_check_device_id(c) ==
    LET r == _read(_write(c, Msg("MV", 0, "")))
    IN  IF r.raised # "" THEN r
        ELSE IF r.ret # DeviceId
             THEN Raise(r, "ST10ControllerError", "not an ST10")
        ELSE r

\* ST10Controller.__init__; StepperMotorBase.__init__ subscribes the
\* controller to the bus.  identified records that _check_device_id returned.
__init__(c) ==
    LET id == _check_device_id(c)
        h == home(IF id.raised # "" THEN id ELSE [id EXCEPT !.identified = TRUE])
    IN  IF h.raised # "" THEN h ELSE [h EXCEPT !.ready = TRUE]

\* ST10Controller.step, the setter
set_step(c, step) == _write_check(c, Msg("FP", step, ""))

\* ST10Controller._send_string
_send_string(c, string) == _write_check(c, Msg("SS", 0, string))

\* StepperMotorBase.preset_angle
preset_angle(c, name) ==
    IF name \in DOMAIN ANGLE_PRESETS
    THEN [c EXCEPT !.angle = ANGLE_PRESETS[name]]
    ELSE Raise(c, "ValueError", "not a valid preset")

\* Mutant: the angle is not checked.
move_to_unchecked(c, target) ==
    LET a == IF target.preset # "" THEN preset_angle(c, target.preset)
             ELSE [c EXCEPT !.angle = target.angle]
    IN  IF a.raised # "" THEN a
        ELSE set_step(a, Round(STEPS_PER_ROTATION * a.angle, 360 * AngleUnit))

\* StepperMotorBase.move_to; a target is a preset name or an angle.
move_to(c, target) ==
    LET a == IF target.preset # "" THEN preset_angle(c, target.preset)
             ELSE [c EXCEPT !.angle = target.angle]
    IN  IF a.raised # "" THEN a
        ELSE IF a.angle < 0 \/ a.angle > 270 * AngleUnit
             THEN Raise(a, "ValueError", "angle out of range")
        ELSE set_step(a, Round(STEPS_PER_ROTATION * a.angle, 360 * AngleUnit))

\* The abstract stop_moving and notify_on_stopped: what they do is left to
\* the subclass; they return, or raise op_error.
stop_moving(c) ==
    IF c.op_error # "" THEN Raise(c, c.op_error, "stop_moving") ELSE c

notify_on_stopped(c) ==
    IF c.op_error # "" THEN Raise(c, c.op_error, "notify_on_stopped") ELSE c

\* StepperMotorBase.send_error_message, reached from an except clause
send_error_message(c) ==
    [c EXCEPT !.errors = Append(@, c.raised), !.raised = "", !.detail = ""]

\* Mutant: the exception is let through.
_move_to_uncaught(c, target) == move_to(c, target)

\* StepperMotorBase._move_to
_move_to(c, target) ==
    LET r == move_to(c, target)
    IN  IF r.raised # "" THEN send_error_message(r) ELSE r

\* StepperMotorBase._stop_moving
_stop_moving(c) ==
    LET r == stop_moving(c)
    IN  IF r.raised # "" THEN send_error_message(r) ELSE r

\* StepperMotorBase._notify_on_stopped
_notify_on_stopped(c) ==
    LET r == notify_on_stopped(c)
    IN  IF r.raised # "" THEN send_error_message(r) ELSE r

\* Mutant: the timeout is put back only when the read raised nothing.
wait_until_stopped_no_finally(c, timeout) ==
    LET s == _send_string(c, "X")
        r == _read([s EXCEPT !.old_timeout = s.timeout, !.timeout = timeout])
    IN  IF s.raised # "" THEN s
        ELSE IF r.raised # "" THEN r
        ELSE IF r.ret # <<"X">>
             THEN Raise(r, "ST10ControllerError", "waiting for X")
        ELSE [r EXCEPT !.timeout = r.old_timeout]

\* ST10Controller.wait_until_stopped
wait_until_stopped(c, timeout) ==
    LET s == _send_string(c, "X")
        r == _read([s EXCEPT !.old_timeout = s.timeout, !.timeout = timeout])
        e == IF r.raised = "" /\ r.ret # <<"X">>
             THEN Raise(r, "ST10ControllerError", "waiting for X")
             ELSE r
    IN  IF s.raised # "" THEN s
        ELSE [e EXCEPT !.timeout = e.old_timeout]

\* Mutant: the failure of the move is raised again.
__del___reraise(c) == move_to(c, [preset |-> "nadir", angle |-> 0])

\* ST10Controller.__del__
__del__(c) ==
    LET r == move_to(c, [preset |-> "nadir", angle |-> 0])
    IN  IF r.raised # ""
        THEN [r EXCEPT !.logged = Append(@, r.raised), !.raised = "",
                       !.detail = ""]
        ELSE r

(***************************************************************************)
(* ST10: the reader thread of the asynchronous wait.                       *)
(***************************************************************************)
\* ST10Controller.wait_until_stopped_async: ask the device for the sentinel
\* and leave its reading to the reader thread.
wait_until_stopped_async(c) ==
    LET s == _send_string(c, "Z")
    IN  IF s.raised # "" THEN s ELSE [s EXCEPT !.pending = TRUE]

\* Mutant: every line that is read counts as the sentinel.
_process_read_any_line(c) ==
    LET r == _read(c)
    IN  IF r.raised # "" THEN [r EXCEPT !.raised = "", !.detail = ""]
        ELSE [r EXCEPT !.ended = @ + 1, !.pending = FALSE]

\* _SerialReader._process_read, on the reader thread: block on the read and
\* publish stepper.move.end when the line is the sentinel.
_process_read(c) ==
    LET r == _read(c)
    IN  IF r.raised # "" THEN [r EXCEPT !.raised = "", !.detail = ""]
        ELSE IF r.ret = <<"Z">>
             THEN [r EXCEPT !.ended = @ + 1, !.pending = FALSE]
        ELSE r

(***************************************************************************)
(* ST10: actions.                                                          *)
(***************************************************************************)
\* serial.timeout as the controller is given it: Serial's 1 s of create(),
\* the 5 s of the tests.
Timeouts == {1, 5}

\* The timeout argument of wait_until_stopped.
WaitTimeouts == {NoTimeout, 2}

\* The targets of a move: presets, known and unknown, and angles.
Targets ==
    {[preset |-> p, angle |-> 0] : p \in {"nadir", "hot_bb", "nowhere"}}
    \cup {[preset |-> "", angle |-> a] :
             a \in {-1, 0, 905, 1800, 270 * AngleUnit, 270 * AngleUnit + 1}}

\* A call on the controller as it is now.
ThisCall(bit3, fault, op_error) ==
    [ST10Call(st10.timeout, st10.ready, bit3, fault, op_error)
        EXCEPT !.pending = st10.pending, !.identified = st10.identified]

\* The call has returned: the controller is as the call left it, and what
\* the call did is kept.
ST10Commit(c, op, target, wait, exists) ==
    /\ st10' = [exists |-> exists, ready |-> c.ready /\ exists,
                timeout |-> c.timeout, pending |-> c.pending /\ exists,
                identified |-> c.identified /\ exists]
    /\ st10_call' = [op |-> op, target |-> target, wait |-> wait,
                     before |-> st10, written |-> c.written, got |-> c.got,
                     timeouts |-> c.timeouts, raised |-> c.raised,
                     detail |-> c.detail, thrown |-> c.thrown,
                     errors |-> c.errors, logged |-> c.logged,
                     ended |-> c.ended]
    /\ UNCHANGED <<regvars, opusvars, tcvars, retryvars, senecavars, hwvars, ftswvars>>

NoTarget == [preset |-> "", angle |-> 0]

\* ST10Controller(serial)
ST10Construct ==
    /\ ~st10.exists
    /\ \E timeout \in Timeouts, bit3 \in BOOLEAN, fault \in Faults(MaxIO) :
          ST10Commit(__init__(ST10Call(timeout, FALSE, bit3, fault, "")),
                     "__init__", NoTarget, NoTimeout, TRUE)

\* The controller is collected, ready or not.
ST10Destroy ==
    /\ st10.exists
    /\ \E fault \in Faults(1) :
          ST10Commit(__del__(ThisCall(FALSE, fault, "")),
                     "__del__", NoTarget, NoTimeout, FALSE)

\* serial.<topic>.move.begin
MoveBegin ==
    /\ st10.ready
    /\ \E target \in Targets, fault \in Faults(1) :
          ST10Commit(_move_to(ThisCall(FALSE, fault, ""), target),
                     "_move_to", target, NoTimeout, TRUE)

\* serial.<topic>.stop
StopRequest ==
    /\ st10.ready
    /\ \E op_error \in {"", "SerialException", "ST10ControllerError"} :
          ST10Commit(_stop_moving(ThisCall(FALSE, NoFault, op_error)),
                     "_stop_moving", NoTarget, NoTimeout, TRUE)

\* serial.<topic>.notify_on_stopped
NotifyRequest ==
    /\ st10.ready
    /\ \E op_error \in {"", "SerialException", "ST10ControllerError"} :
          ST10Commit(_notify_on_stopped(ThisCall(FALSE, NoFault, op_error)),
                     "_notify_on_stopped", NoTarget, NoTimeout, TRUE)

\* dev.wait_until_stopped(timeout)
WaitUntilStopped ==
    /\ st10.ready
    /\ \E timeout \in WaitTimeouts, fault \in Faults(2) :
          ST10Commit(wait_until_stopped(ThisCall(FALSE, fault, ""), timeout),
                     "wait_until_stopped", NoTarget, timeout, TRUE)

\* dev._check_response() on whatever line the device sent
CheckResponse ==
    /\ st10.ready
    /\ \E reply \in Replies :
          ST10Commit(_check_response(
                         ThisCall(FALSE, [NoFault EXCEPT !.at_read = 1,
                                                         !.reply = reply], "")),
                     "_check_response", NoTarget, NoTimeout, TRUE)

\* dev.wait_until_stopped_async()
WaitUntilStoppedAsync ==
    /\ st10.ready
    /\ ~st10.pending
    /\ \E fault \in Faults(1) :
          ST10Commit(wait_until_stopped_async(ThisCall(FALSE, fault, "")),
                     "wait_until_stopped_async", NoTarget, NoTimeout, TRUE)

\* The reader thread's blocking read returns.
ReaderRead ==
    /\ st10.ready
    /\ st10.pending
    /\ \E reply \in Replies :
          ST10Commit(_process_read(
                         ThisCall(FALSE, [NoFault EXCEPT !.at_read = 1,
                                                         !.reply = reply], "")),
                     "_process_read", NoTarget, NoTimeout, TRUE)

ST10Init ==
    /\ st10 = [exists |-> FALSE, ready |-> FALSE, timeout |-> 1,
               pending |-> FALSE, identified |-> FALSE]
    /\ st10_call = [op |-> "", target |-> NoTarget, wait |-> NoTimeout,
                    before |-> st10, written |-> <<>>, got |-> <<>>,
                    timeouts |-> <<>>, raised |-> "", detail |-> "",
                    thrown |-> <<>>, errors |-> <<>>, logged |-> <<>>,
                    ended |-> 0]

(***************************************************************************)
(* Seneca K107: the read of one response frame.                            *)
(***************************************************************************)
\* The number of bytes of a response frame.
SenecaFrameSize == 21

\* Mutant: the tests' frame without its last three bytes.
data_truncated ==
    <<1, 3, 16, 49, 100, 49, 112, 255, 250, 255, 248, 49, 117, 255, 250, 49,
      100, 255>>

\* The tests' data fixture: a whole frame.
data ==
    <<1, 3, 16, 49, 100, 49, 112, 255, 250, 255, 248, 49, 117, 255, 250, 49,
      100, 255, 250, 93, 90>>

\* len bytes as the device could send them: the frame from its byte number
\* shift + 1 on, over and over.
SenecaMessage(len, shift) ==
    [i \in 1..len |-> data[((i - 1 + shift) % Len(data)) + 1]]

\* SenecaK107.read: the bytes serial.read gave, or SenecaK107Error when
\* they are not a whole frame.
seneca_read(message) ==
    IF Len(message) # SenecaFrameSize
    THEN [called |-> TRUE, message |-> message,
          raised |-> "SenecaK107Error", ret |-> <<>>]
    ELSE [called |-> TRUE, message |-> message, raised |-> "", ret |-> message]

\* test_read and test_read_error: dev.read() with serial.read mocked
SenecaRead ==
    \E len \in 0..MaxFrame, shift \in {0, 1, 2, 3, 18} :
        /\ seneca' = seneca_read(SenecaMessage(len, shift))
        /\ UNCHANGED <<regvars, opusvars, tcvars, retryvars, st10vars, hwvars, ftswvars>>

SenecaInit ==
    seneca = [called |-> FALSE, message |-> <<>>, raised |-> "", ret |-> <<>>]

(***************************************************************************)
(* HardwareSetsControl of frog/gui/hardware_set/hardware_sets_view.py.     *)
(* The control's handlers send device.open and device.close messages; the  *)
(* events by which the backend answers them are actions of their own.      *)
(***************************************************************************)
ConnectionStatus == {"DISCONNECTED", "CONNECTING", "CONNECTED"}

\* OpenDeviceArgs(instance, class_name, params): a value type.
OpenDeviceArgs(instance, class_name, params) ==
    [instance |-> instance, class_name |-> class_name, params |-> params]

\* The device sets the combo box offers: two instances, and one of them again
\* with other params.
BothDevices ==
    { OpenDeviceArgs([base_type |-> "stepper_motor", name |-> ""],
                     "dummy.DeviceA", [port |-> "COM1"]),
      OpenDeviceArgs([base_type |-> "temperature_controller", name |-> "hot_bb"],
                     "dummy.DeviceB", [port |-> "COM2"]) }

MotorOnly ==
    { OpenDeviceArgs([base_type |-> "stepper_motor", name |-> ""],
                     "dummy.DeviceA", [port |-> "COM2"]) }

HardwareSets == {BothDevices, MotorOnly}

\* iter(d): the keys of the dict.
DictKeys(d) == {d[i].key : i \in 1..Len(d)}

\* d[k] for a key the dict has.
DictItem(d, k) == d[CHOOSE i \in 1..Len(d) : d[i].key = k].val

\* ActiveDeviceProperties(args, state): the dataclass and its __post_init__
__post_init__(props) ==
    IF props.state = "DISCONNECTED"
    THEN [props |-> props, raised |-> "ValueError"]
    ELSE [props |-> props, raised |-> ""]

ActiveDeviceProperties(args, state) ==
    __post_init__([args |-> args, state |-> state])

_get_connected_devices(h) ==
    { DictItem(h.active, k).args :
        k \in {i \in DictKeys(h.active) :
                  DictItem(h.active, i).state = "CONNECTED"} }

_update_control_state(h) ==
    LET connected_devices == _get_connected_devices(h)
        all_connected == h.selected \subseteq connected_devices
        any_devices_connecting ==
            Cardinality(connected_devices) < Len(h.active)
    IN  [h EXCEPT !.connect_enabled =
                      ~any_devices_connecting /\ ~all_connected,
                  !.disconnect_enabled = connected_devices # {}]

\* set.difference(dict): the elements of the set that are no key of the dict.
difference(hw_set_devices, active) ==
    {d \in hw_set_devices : \A k \in DictKeys(active) : k # d}

\* device.open() for each device of the difference
_on_connect_btn_pressed(h) ==
    _update_control_state(
        [h EXCEPT !.opened = difference(h.selected, h.active)])

\* device.close for each key of a copy of the dict
_on_disconnect_btn_pressed(h) ==
    _update_control_state(
        [h EXCEPT !.closing = [i \in 1..Len(h.active) |-> h.active[i].key]])

_on_device_open_start(h, instance, class_name, params) ==
    LET args == OpenDeviceArgs(instance, class_name, params)
        dev_props == ActiveDeviceProperties(args, "CONNECTING")
    IN  IF dev_props.raised # ""
        THEN [h EXCEPT !.raised = dev_props.raised]
        ELSE _update_control_state(
                 [h EXCEPT !.active = DictSet(@, instance, dev_props.props)])

\* Mutant: the state is left as it is.
_on_device_open_end_no_state(h, instance, class_name) ==
    IF ~DictHas(h.active, instance)
    THEN [h EXCEPT !.raised = "KeyError"]
    ELSE IF DictItem(h.active, instance).args.class_name # class_name
         THEN [h EXCEPT !.raised = "AssertionError"]
         ELSE _update_control_state(h)

\* The settings written for the next run are not part of the model.
_on_device_open_end(h, instance, class_name) ==
    IF ~DictHas(h.active, instance)
    THEN [h EXCEPT !.raised = "KeyError"]
    ELSE LET dev_props == DictItem(h.active, instance)
             h1 == [h EXCEPT !.active =
                        DictSet(@, instance,
                                [dev_props EXCEPT !.state = "CONNECTED"])]
         IN  IF dev_props.args.class_name # class_name
             THEN [h1 EXCEPT !.raised = "AssertionError"]
             ELSE _update_control_state(h1)

_on_device_closed(h, instance) ==
    IF DictHas(h.active, instance)
    THEN _update_control_state([h EXCEPT !.active = DictPop(@, instance)])
    ELSE h  \* except KeyError: pass

(***************************************************************************)
(* The control as a state machine.                                         *)
(***************************************************************************)
NoArgs == OpenDeviceArgs(NoInstance, "", NoParams)

\* The handler's view of the control as it starts.
HardwareSetsControl ==
    [active |-> hwset.active, selected |-> hwset.selected,
     connect_enabled |-> hwset.connect_enabled,
     disconnect_enabled |-> hwset.disconnect_enabled,
     opened |-> {}, closing |-> <<>>, raised |-> ""]

HwCommit(h, op, args, state) ==
    /\ hwset' = [active |-> h.active, selected |-> h.selected,
                 connect_enabled |-> h.connect_enabled,
                 disconnect_enabled |-> h.disconnect_enabled]
    /\ hwset_call' = [op |-> op, args |-> args, state |-> state,
                      before |-> hwset, opened |-> h.opened,
                      closing |-> h.closing, raised |-> h.raised]
    /\ UNCHANGED <<regvars, opusvars, tcvars, retryvars, st10vars, senecavars,
                   ftswvars>>

\* The combo box's currentIndexChanged
SelectHardwareSet ==
    \E hw_set \in HardwareSets :
        HwCommit(_update_control_state(
                     [HardwareSetsControl EXCEPT !.selected = hw_set]),
                 "select", NoArgs, "")

\* The Connect button can be pressed when it is enabled.
ConnectPressed ==
    /\ hwset.connect_enabled
    /\ HwCommit(_on_connect_btn_pressed(HardwareSetsControl), "connect",
                NoArgs, "")

DisconnectPressed ==
    /\ hwset.disconnect_enabled
    /\ HwCommit(_on_disconnect_btn_pressed(HardwareSetsControl), "disconnect",
                NoArgs, "")

\* pub.sendMessage("device.before_opening", instance, class_name, params)
DeviceBeforeOpening ==
    \E instance \in Instances, class_name \in DeviceClasses,
       params \in ParamChoices :
        HwCommit(_on_device_open_start(HardwareSetsControl, instance,
                                       class_name, params),
                 "before_opening",
                 OpenDeviceArgs(instance, class_name, params), "")

\* pub.sendMessage("device.after_opening", instance, class_name)
DeviceAfterOpening ==
    \E instance \in Instances, class_name \in DeviceClasses :
        HwCommit(_on_device_open_end(HardwareSetsControl, instance, class_name),
                 "after_opening",
                 OpenDeviceArgs(instance, class_name, NoParams), "")

\* pub.sendMessage("device.closed", instance)
DeviceClosed ==
    \E instance \in Instances :
        HwCommit(_on_device_closed(HardwareSetsControl, instance), "closed",
                 OpenDeviceArgs(instance, "", NoParams), "")

\* ActiveDeviceProperties(args, state), called directly
NewActiveDeviceProperties ==
    \E hw_set \in HardwareSets, state \in ConnectionStatus :
        \E args \in hw_set :
            HwCommit([HardwareSetsControl EXCEPT
                         !.raised = ActiveDeviceProperties(args, state).raised],
                     "ActiveDeviceProperties", args, state)

HwInit ==
    /\ hwset = _update_control_state(
                   [active |-> <<>>, selected |-> BothDevices,
                    connect_enabled |-> FALSE, disconnect_enabled |-> FALSE])
    /\ hwset_call = [op |-> "", args |-> NoArgs, state |-> "",
                     before |-> [active |-> <<>>, selected |-> {},
                                 connect_enabled |-> TRUE,
                                 disconnect_enabled |-> FALSE],
                     opened |-> {}, closing |-> <<>>, raised |-> ""]

(***************************************************************************)
(* FTSW500Interface of                                                     *)
(* finesse/hardware/plugins/spectrometer/ftsw500_interface.py.             *)
(* A response is kept as what parse_response looks at: its tag, whether it *)
(* has an "&", and the text after it, which is an integer or is not.       *)
(***************************************************************************)
\* SpectrometerStatus(value): the member of the enum with that value.
SpectrometerStatus(value) ==
    CASE value = 0 -> "IDLE"
      [] value = 1 -> "CONNECTING"
      [] value = 2 -> "CONNECTED"
      [] value = 3 -> "MEASURING"
      [] OTHER -> "UNDEFINED"

Response(tag, amp, numeric, value) ==
    [tag |-> tag, amp |-> amp, numeric |-> numeric, value |-> value]

\* socket.recv raised instead of returning bytes.
RecvTimeout == Response("<timeout>", FALSE, FALSE, 0)

\* ACK&-1 .. ACK&4, NAK&2, ACK, ACK&true, b"" and a timeout.
FtswResponses ==
    {Response("ACK", TRUE, TRUE, v) : v \in -1..4}
        \cup {Response("NAK", TRUE, TRUE, 2), Response("ACK", FALSE, FALSE, 0),
              Response("ACK", TRUE, FALSE, 0), Response("", FALSE, FALSE, 0),
              RecvTimeout}

\* What a dialog query is answered: ACK&false, ACK&true, or recv times out.
DialogAnswers == {"false", "true", "timeout"}

\* status "None" stands for None.
parse_response(msg) ==
    IF msg.tag \notin {"NAK", "ACK"}
    THEN [raised |-> "FTSW500Error", status |-> "None"]
    ELSE IF ~msg.amp
         THEN [raised |-> "", status |-> "None"]
         ELSE IF ~msg.numeric
              THEN \* int() raised ValueError: logged
                   [raised |-> "", status |-> "None"]
              ELSE IF msg.value = -1
                   THEN [raised |-> "", status |-> SpectrometerStatus(1)]
                   ELSE IF msg.value \in {0, 1, 2, 3}
                        THEN [raised |-> "",
                              status |-> SpectrometerStatus(msg.value)]
                        ELSE [raised |-> "FTSW500Error", status |-> "None"]

\* self._requester.sendall(command)
sendall(f, cmd) ==
    IF f.socket # "open"
    THEN [f EXCEPT !.raised = "OSError"]
    ELSE [f EXCEPT !.sent = Append(@, cmd)]

\* self._requester.recv(1024) answering a dialog query
recv(f, answer) ==
    IF answer = "timeout"
    THEN [f EXCEPT !.raised = "TimeoutError"]
    ELSE [f EXCEPT !.flag = (answer = "true")]

_check_is_modal_dialog_open(f, answer) ==
    LET f1 == sendall(f, "isModalMessageDisplayed")
    IN  IF f1.raised # "" THEN f1 ELSE recv(f1, answer)

_check_is_nonmodal_dialog_open(f, answer) ==
    LET f1 == sendall(f, "isNonModalMessageDisplayed")
    IN  IF f1.raised # "" THEN f1 ELSE recv(f1, answer)

\* The message and the acknowledgement of its closing arrive.
_regurgitate_modal_dialog_message(f, answer) ==
    LET f1 == _check_is_modal_dialog_open(f, answer)
    IN  IF f1.raised # "" \/ ~f1.flag THEN f1
        ELSE sendall(sendall(f1, "getLastModalMessageDisplayed"),
                     "closeModalDialogMessage")

_regurgitate_nonmodal_dialog_message(f, answer) ==
    LET f1 == _check_is_nonmodal_dialog_open(f, answer)
    IN  IF f1.raised # "" \/ ~f1.flag THEN f1
        ELSE sendall(sendall(f1, "getLastNonModalMessageDisplayed"),
                     "closeNonModalDialogMessage")

_disconnect(f, answer) ==
    LET f1 == sendall(f, "clickDisconnectButton")
    IN  IF f1.raised # "" THEN f1 ELSE recv(f1, answer)

\* self.send_status_message(new_status)
send_status_message(f, status) ==
    [f EXCEPT !.published = Append(@, status), !.last_published = status]

\* closed records that close() was called; super().close() unsubscribes.
close(f, disconnected, nonmodal) ==
    LET f0 == [f EXCEPT !.closed = TRUE]
        f1 == IF f0.status = "CONNECTED"
              THEN LET d == _disconnect(f0, disconnected)
                   IN  IF d.raised # "" THEN d
                       ELSE _regurgitate_nonmodal_dialog_message(d, nonmodal)
              ELSE f0
    IN  IF f1.raised # "" THEN f1
        ELSE [f1 EXCEPT !.socket = "closed", !.timer = FALSE,
                        !.subscribed = FALSE]

_on_reply_received(f, reply, nonmodal, modal) ==
    LET parsed == parse_response(reply)
        new_status == parsed.status
        f1 == IF new_status # "None" /\ new_status # f.status
              THEN send_status_message([f EXCEPT !.status = new_status],
                                       new_status)
              ELSE f
        \* self._status_timer.start()
        f2 == [f1 EXCEPT !.timer = TRUE]
        f3 == _regurgitate_nonmodal_dialog_message(f2, nonmodal)
    IN  IF parsed.raised # "" THEN [f EXCEPT !.raised = parsed.raised]
        ELSE IF f3.raised # "" THEN f3
             ELSE _regurgitate_modal_dialog_message(f3, modal)

_make_request(f, cmd, reply, nonmodal, modal) ==
    LET f1 == sendall(f, cmd)
    IN  IF f1.raised # "" THEN f1
        ELSE IF reply = RecvTimeout
             THEN [f1 EXCEPT !.raised = "TimeoutError"]
             ELSE _on_reply_received(f1, reply, nonmodal, modal)

ftsw500_request_command(f, cmd, reply, nonmodal, modal) ==
    _make_request(f, cmd, reply, nonmodal, modal)

_request_status(f, reply, nonmodal, modal) ==
    ftsw500_request_command(f, "getFTSW500State", reply, nonmodal, modal)

\* FTSW500Interface(): connected says whether socket.connect succeeds.
FTSW500Interface(connected, reply, nonmodal, modal) ==
    LET f == [status |-> "UNDEFINED", timer |-> FALSE, socket |-> "open",
              subscribed |-> TRUE, closed |-> FALSE,
              last_published |-> "UNDEFINED", sent |-> <<>>,
              published |-> <<>>, raised |-> "", flag |-> FALSE]
    IN  IF ~connected
        THEN [f EXCEPT !.raised = "ConnectionRefusedError"]
        ELSE _request_status(f, reply, nonmodal, modal)

(***************************************************************************)
(* The FTSW500 interface as a state machine.                               *)
(***************************************************************************)
\* No interface object.
NoFTSW500 ==
    [exists |-> FALSE, status |-> "UNDEFINED", timer |-> FALSE,
     socket |-> "closed", subscribed |-> FALSE, closed |-> FALSE,
     last_published |-> "UNDEFINED"]

\* The handler's view of the object as it starts.
FTSW500 ==
    [status |-> ftsw.status, timer |-> ftsw.timer, socket |-> ftsw.socket,
     subscribed |-> ftsw.subscribed, closed |-> ftsw.closed,
     last_published |-> ftsw.last_published, sent |-> <<>>,
     published |-> <<>>, raised |-> "", flag |-> FALSE]

\* kept: whether the object remains when the call has ended.
FtswCommit(f, op, reply, kept) ==
    /\ ftsw' = IF kept
               THEN [exists |-> TRUE, status |-> f.status, timer |-> f.timer,
                     socket |-> f.socket, subscribed |-> f.subscribed,
                     closed |-> f.closed,
                     last_published |-> f.last_published]
               ELSE NoFTSW500
    /\ ftsw_call' = [op |-> op, reply |-> reply, before |-> ftsw,
                     sent |-> f.sent, published |-> f.published,
                     raised |-> f.raised]
    /\ UNCHANGED <<regvars, opusvars, tcvars, retryvars, st10vars, senecavars,
                   hwvars>>

\* The registry constructs the device; an object whose close() was called
\* has been given up by then.
FtswConstruct ==
    /\ ~ftsw.exists \/ ftsw.closed
    /\ \E connected \in BOOLEAN, reply \in FtswResponses,
          nonmodal \in DialogAnswers, modal \in DialogAnswers :
          /\ ~connected =>
                (reply = RecvTimeout /\ nonmodal = "false" /\ modal = "false")
          /\ LET f == FTSW500Interface(connected, reply, nonmodal, modal)
             IN  FtswCommit(f, "__init__", reply, f.raised = "")

\* The single-shot status timer fires.
FtswTimerTimeout ==
    /\ ftsw.exists
    /\ ftsw.timer
    /\ \E reply \in FtswResponses, nonmodal \in DialogAnswers,
          modal \in DialogAnswers :
          FtswCommit(_request_status([FTSW500 EXCEPT !.timer = FALSE], reply,
                                     nonmodal, modal),
                     "timeout", reply, TRUE)

\* A command requested over the bus while the device is subscribed.
FtswRequestCommand ==
    /\ ftsw.exists
    /\ ftsw.subscribed
    /\ \E reply \in FtswResponses, nonmodal \in DialogAnswers,
          modal \in DialogAnswers :
          FtswCommit(ftsw500_request_command(FTSW500, "clickConnectButton",
                                             reply, nonmodal, modal),
                     "request", reply, TRUE)

\* The registry closes the device.
FtswClose ==
    /\ ftsw.exists
    /\ ~ftsw.closed
    /\ \E disconnected \in DialogAnswers \ {"true"},
          nonmodal \in DialogAnswers :
          FtswCommit(close(FTSW500, disconnected, nonmodal), "close",
                     RecvTimeout, TRUE)

FtswInit ==
    /\ ftsw = NoFTSW500
    /\ ftsw_call = [op |-> "", reply |-> RecvTimeout, before |-> NoFTSW500,
                    sent |-> <<>>, published |-> <<>>, raised |-> ""]

Init ==
    /\ RegInit /\ OpusInit /\ TcInit /\ RetryInit /\ ST10Init /\ SenecaInit
    /\ HwInit /\ FtswInit

Next == OpenDevice \/ CloseDevice \/ DeviceError \/ WindowClosed

Spec == Init /\ [][Next]_vars

NextListeners == OpenDeviceReacting \/ CloseDevice \/ DeviceError \/ WindowClosed

SpecListeners == Init /\ [][NextListeners]_vars

NextOPUS == RequestCommand \/ TimerTimeout

SpecOPUS == Init /\ [][NextOPUS]_vars

\* The Qt event loop delivers the timeout of a timer that stays started.
SpecOPUSFair == Init /\ [][NextOPUS]_vars /\ WF_vars(TimerTimeout)

NextTC4820 == ReadFrame \/ ReadTerminators \/ ReadLength \/ ReadPayload

SpecTC4820 == Init /\ [][NextTC4820]_vars

NextTC4820Request == RequestInt

SpecTC4820Request == Init /\ [][NextTC4820Request]_vars

NextST10 ==
    \/ ST10Construct
    \/ ST10Destroy
    \/ MoveBegin
    \/ StopRequest
    \/ NotifyRequest
    \/ WaitUntilStopped
    \/ CheckResponse
    \/ WaitUntilStoppedAsync
    \/ ReaderRead

SpecST10 == Init /\ [][NextST10]_vars

NextSeneca == SenecaRead

SpecSeneca == Init /\ [][NextSeneca]_vars

NextHardwareSets ==
    \/ SelectHardwareSet
    \/ ConnectPressed
    \/ DisconnectPressed
    \/ DeviceBeforeOpening
    \/ DeviceAfterOpening
    \/ DeviceClosed
    \/ NewActiveDeviceProperties

SpecHardwareSets == Init /\ [][NextHardwareSets]_vars

NextFTSW500 ==
    \/ FtswConstruct
    \/ FtswTimerTimeout
    \/ FtswRequestCommand
    \/ FtswClose

SpecFTSW500 == Init /\ [][NextFTSW500]_vars

(***************************************************************************)
(* Properties of the registry, checked under Spec.                         *)
(***************************************************************************)
\* The places of the trace holding an entry of kind k.
At(k) == {i \in 1..Len(trace) : trace[i].k = k}

\* The device the registry held for the request's instance as it arrived.
Held == DictGet(last.pre, last.inst)

OpenResolved == last.op = "open" /\ last.cls \in DeviceClasses

OpenFailed == OpenResolved /\ \E i \in At("construct") : trace[i].error # ""

OpenSucceeded == OpenResolved /\ \E i \in At("construct") : trace[i].dev # 0

\* C1: an open of an instance that already holds a device attempts the held
\* device's close() and sends the closed message for the instance before the
\* new device is constructed and before any opening or opened message.
C1_ReplaceOnOpen ==
    (OpenResolved /\ Held # 0) =>
        /\ At("construct") # {}
        /\ \E i \in At("close"), j \in At("closed") :
            /\ trace[i].dev = Held
            /\ trace[j].inst = last.inst
            /\ i < j
            /\ \A m \in At("construct") \cup At("opening") \cup At("opened") :
                  j < m

C1_Witness ==
    /\ OpenSucceeded
    /\ Held # 0
    /\ objs[Held].cls # last.cls
    /\ At("opened") # {}

\* C2: an open whose constructor raises lets no exception escape, leaves the
\* instance without a registered device, sends exactly one error message, which
\* carries the instance and the constructor's error, and sends no opening and
\* no opened message.
C2_OpenFailure ==
    OpenFailed =>
        /\ raised = ""
        /\ ~DictHas(devices, last.inst)
        /\ Len(objs) = last.nobjs
        /\ Cardinality(At("error")) = 1
        /\ \A i \in At("error"), c \in At("construct") :
              /\ trace[i].inst = last.inst
              /\ trace[i].error = trace[c].error
              /\ c < i
        /\ At("opening") = {}
        /\ At("opened") = {}

C2_Witness == OpenFailed /\ Held # 0 /\ At("error") # {}

\* C3: an open whose constructor succeeds sends, with the device registered,
\* exactly one opening message carrying the instance, the class name and the
\* params as the caller passed them (no injected name), and then exactly one
\* opened message for the instance.
C3_OpenSuccess ==
    OpenSucceeded =>
        /\ Cardinality(At("opening")) = 1
        /\ Cardinality(At("opened")) = 1
        /\ \A c \in At("construct"), i \in At("opening"), j \in At("opened") :
              /\ c < i
              /\ i < j
              /\ trace[i].inst = last.inst
              /\ trace[i].cls = last.cls
              /\ trace[i].params = last.params
              /\ "name" \notin DOMAIN trace[i].params
              /\ trace[i].reg = trace[c].dev
              /\ trace[j].inst = last.inst
              /\ trace[j].reg = trace[c].dev

C3_Witness ==
    /\ OpenSucceeded
    /\ last.inst.name # ""
    /\ At("opened") # {}
    /\ \E c \in At("construct") : "name" \in DOMAIN trace[c].params

C5_CloseAbsent ==
    (last.op = "close" /\ ~DictHas(last.pre, last.inst)) =>
        /\ raised = ""
        /\ trace = <<>>
        /\ devices = last.pre

C5_Witness ==
    /\ last.op = "close"
    /\ ~DictHas(last.pre, last.inst)
    /\ devices # <<>>

\* C6: once an error message for an instance has been delivered, the instance
\* holds no device, and if it held one when the message was sent, that
\* device's close() was attempted and a closed message for the instance sent.
C6_ErrorIsFatal ==
    \A i \in At("error") :
        /\ ~DictHas(devices, trace[i].inst)
        /\ trace[i].reg # 0 =>
              \E j \in At("close"), m \in At("closed") :
                  /\ i < j
                  /\ j < m
                  /\ trace[j].dev = trace[i].reg
                  /\ trace[m].inst = trace[i].inst

C6_Witness ==
    /\ last.op = "error"
    /\ Held # 0
    /\ At("closed") # {}

\* C7 as claimed: when the control's error handler sees an error message, the
\* registry has already closed and evicted the instance's device.
C7_CloseBeforeListeners ==
    \A i \in At("shown") : trace[i].reg = 0

\* C7 as amended: the control's error handler, subscribed to the instance's own
\* topic, sees the error message first, with the device the registry held
\* still registered; the registry's close of that device and its closed
\* message follow in the same delivery, after which the instance holds none.
C7_ListenersBeforeClose ==
    \A i \in At("error") :
        trace[i].reg # 0 =>
            /\ i + 1 \in At("shown")
            /\ trace[i + 1].reg = trace[i].reg
            /\ trace[i + 1].error = trace[i].error
            /\ \E j \in At("close"), m \in At("closed") :
                  /\ i + 1 < j
                  /\ j < m
                  /\ trace[j].dev = trace[i].reg
                  /\ trace[m].inst = trace[i].inst
            /\ ~DictHas(devices, trace[i].inst)

C7_Witness ==
    /\ last.op = "error"
    /\ Held # 0
    /\ \E i \in At("shown") : trace[i].reg = Held

Unclosed(instance) ==
    {d \in 1..Len(objs) : objs[d].inst = instance /\ objs[d].closes = 0}

\* The close() attempts made on device d before place c of the trace.
ClosesBefore(d, c) ==
    objs[d].closes - Cardinality({i \in At("close") : trace[i].dev = d /\ i > c})

\* C9: for each instance there is at most one constructed device on which
\* close() has not yet been attempted, after every request and at the moment
\* a device is constructed.
C9_OneOpenPerSlot ==
    /\ \A instance \in Instances : Cardinality(Unclosed(instance)) <= 1
    /\ \A c \in At("construct"), d \in 1..Len(objs) :
          (trace[c].dev # 0 /\ d # trace[c].dev /\ objs[d].inst = trace[c].inst)
              => ClosesBefore(d, c) > 0

C9_Witness ==
    \E instance \in Instances, d \in 1..Len(objs) :
        /\ objs[d].inst = instance
        /\ objs[d].closes > 0
        /\ Cardinality(Unclosed(instance)) = 1
        /\ DictGet(devices, instance) \in Unclosed(instance)

(***************************************************************************)
(* Properties of the OPUS state machine, checked under SpecOPUS.           *)
(***************************************************************************)
LegalChanges ==
    { <<"idle", "connecting">>, <<"connecting", "connected">>,
      <<"connected", "measuring">>, <<"measuring", "finishing">>,
      <<"finishing", "connected">>, <<"measuring", "cancelling">>,
      <<"cancelling", "connected">> }

\* C10: the machine starts in idle; every state change it makes is one of
\* idle->connecting, connecting->connected, connected->measuring,
\* measuring->finishing, finishing->connected, measuring->cancelling,
\* cancelling->connected; a start that takes effect goes from connected to
\* measuring and a cancel that takes effect leaves measuring.
C10_LegalTransitions ==
    /\ command = "" => machine.state = "idle"
    /\ path[Len(path)] = machine.state
    /\ \A i \in 1..(Len(path) - 1) : <<path[i], path[i + 1]>> \in LegalChanges
    /\ (command = "start" /\ Len(path) > 1) => path = <<"connected", "measuring">>
    /\ (command = "cancel" /\ Len(path) > 1) => path[1] = "measuring"

C10_Witness ==
    /\ command = "cancel"
    /\ path = <<"measuring", "cancelling", "connected">>

\* The state each command's transition starts from.
ValidFrom ==
    [connect |-> "idle", start |-> "connected", stop |-> "measuring",
     cancel |-> "measuring"]

\* The requests that are commands of the machine, issued where they are valid.
ValidCommand == command \in DOMAIN ValidFrom /\ path[1] = ValidFrom[command]

InvalidCommand == command \in DOMAIN ValidFrom /\ path[1] # ValidFrom[command]

\* C11: connect, start, stop or cancel issued in a state where its transition
\* is not allowed lets no exception escape, leaves the state unchanged and
\* sets last_error to NOT_IDLE, NOT_CONNECTED, NOT_RUNNING_OR_FINISHING or
\* NOT_RUNNING respectively; cancel from connected gives NOT_RUNNING.
C11_InvalidCommand ==
    InvalidCommand =>
        /\ escaped = ""
        /\ path = <<machine.state>>
        /\ machine.timer = prior.timer
        /\ last_error =
             [connect |-> "NOT_IDLE", start |-> "NOT_CONNECTED",
              stop |-> "NOT_RUNNING_OR_FINISHING",
              cancel |-> "NOT_RUNNING"][command]

C11_Witness ==
    /\ command = "cancel"
    /\ path = <<"connected">>
    /\ last_error = "NOT_RUNNING"

\* C12 as claimed: a cancel issued while measuring takes the machine through
\* cancelling to connected and the completion callback is not invoked.
C12_CancelSkipsCallback ==
    (command = "cancel" /\ path[1] = "measuring") =>
        /\ path = <<"measuring", "cancelling", "connected">>
        /\ machine.calls = prior.calls

\* C13: when the timer elapses or stop is issued while measuring, the machine
\* goes through finishing to connected and the completion callback is invoked
\* exactly once; the timer elapses only while measuring.
C13_NormalCompletion ==
    /\ command = "timeout" => path[1] = "measuring"
    /\ (command \in {"timeout", "stop"} /\ path[1] = "measuring") =>
          /\ path = <<"measuring", "finishing", "connected">>
          /\ machine.calls = prior.calls + 1
          /\ machine.calls = machine.started
          /\ escaped = ""

C13_Witness ==
    /\ command = "timeout"
    /\ machine.state = "connected"
    /\ machine.calls = prior.calls + 1

\* C14: the measurement timer is pending only while the machine is measuring;
\* it is stopped when cancel or stop returns, and it never fires in another
\* state than measuring.
C14_TimerDiscipline ==
    /\ machine.timer => machine.state = "measuring"
    /\ (command \in {"cancel", "stop"} /\ path[1] = "measuring") => ~machine.timer
    /\ command = "timeout" => (path[1] = "measuring" /\ escaped = "")

C14_Witness ==
    /\ command = "cancel"
    /\ prior.timer
    /\ ~machine.timer
    /\ machine.state = "connected"

\* C15 as claimed: the response to connect, start, stop, cancel or status,
\* issued where it is valid (status: in any state but idle), carries no error.
C15_ValidCommandClearsError ==
    (ValidCommand \/ (command = "status" /\ path[1] # "idle")) =>
        \A i \in 1..Len(response) : response[i].error = <<>>

\* C15 as amended: the response to connect, start, stop or cancel, issued
\* where it is valid, carries no error, whatever error came before; a status
\* command in a state other than idle leaves last_error as it was, and its
\* response carries that error.
C15_ValidTransitionClearsError ==
    /\ ValidCommand =>
          /\ last_error = "NO_ERROR"
          /\ Len(response) = 1
          /\ response[1].error = <<>>
    /\ (command = "status" /\ path[1] # "idle") =>
          /\ last_error = prior.last_error
          /\ Len(response) = 1
          /\ (response[1].error = <<>>) <=> (prior.last_error = "NO_ERROR")

C15_Witness ==
    /\ command = "start"
    /\ path = <<"connected", "measuring">>
    /\ prior.last_error # "NO_ERROR"
    /\ response[1].error = <<>>

\* C16: a status command changes neither the machine's state nor its timer;
\* issued in idle it sets last_error to NOT_CONNECTED.
C16_StatusCommand ==
    command = "status" =>
        /\ path = <<machine.state>>
        /\ machine.timer = prior.timer
        /\ machine.calls = prior.calls
        /\ escaped = ""
        /\ machine.state = "idle" => last_error = "NOT_CONNECTED"

C16_Witness ==
    /\ command = "status"
    /\ machine.state = "idle"
    /\ prior.last_error = "NO_ERROR"
    /\ last_error = "NOT_CONNECTED"

\* C17: a command string other than connect, start, stop, cancel and status
\* sets last_error to UNKNOWN_COMMAND, lets no exception escape and leaves the
\* machine's state and timer unchanged.
C17_UnknownCommand ==
    command \notin {"", "timeout", "connect", "start", "stop", "cancel", "status"} =>
        /\ last_error = "UNKNOWN_COMMAND"
        /\ escaped = ""
        /\ path = <<machine.state>>
        /\ machine.timer = prior.timer
        /\ machine.calls = prior.calls

C17_Witness ==
    /\ command = "reset"
    /\ machine.state = "measuring"
    /\ machine.timer
    /\ last_error = "UNKNOWN_COMMAND"

\* C18: every request_command, valid or not, sends exactly one response for
\* its command, carrying the machine's state and label as they are after the
\* command was handled and an error that is None exactly when last_error is
\* NO_ERROR.
C18_OneResponse ==
    command \in Commands =>
        /\ Len(response) = 1
        /\ response[1].command = command
        /\ response[1].status = machine.state
        /\ response[1].text = StateName[machine.state]
        /\ (response[1].error = <<>>) <=> (last_error = "NO_ERROR")
        /\ response[1].error # <<>> =>
              response[1].error = <<OPUSErrorInfo[last_error], last_error>>

C18_Witness ==
    /\ command = "start"
    /\ Len(response) = 1
    /\ response[1].status = "measuring"
    /\ prior.last_error # "NO_ERROR"

\* C19: a connect issued in idle has the machine connected when its response
\* is sent, and no response reports connecting, finishing or cancelling.
C19_ConnectAtomic ==
    /\ \A i \in 1..Len(response) :
          response[i].status \notin {"connecting", "finishing", "cancelling"}
    /\ (command = "connect" /\ path[1] = "idle") =>
          /\ path = <<"idle", "connecting", "connected">>
          /\ machine.state = "connected"
          /\ Len(response) = 1
          /\ response[1].status = "connected"

C19_Witness ==
    /\ command = "connect"
    /\ path = <<"idle", "connecting", "connected">>
    /\ Len(response) = 1

IsLine(reply) ==
    /\ reply.err = ""
    /\ reply.raw # <<>>
    /\ \A i \in 1..Len(reply.raw) : reply.raw[i] # NonAscii

\* The line without its last byte.
LineOf(reply) == SubSeq(reply.raw, 1, Len(reply.raw) - 1)

Acked(reply) == IsLine(reply) /\ LineOf(reply) \in {<<"%">>, <<"*">>}

HomingCommands == {"IS", "FL", "SH6H", "SP0"}

\* C22: constructing the controller writes MV first; when the reply is
\* anything other than 107F024, construction raises ST10ControllerError, and
\* whenever the identity check fails none of IS, FL, SH6H and SP0 is written.
C22_IdentityGate ==
    st10_call.op = "__init__" =>
        /\ Len(st10_call.written) >= 1
        /\ st10_call.written[1] = Msg("MV", 0, "")
        /\ (/\ Len(st10_call.got) >= 1
            /\ IsLine(st10_call.got[1])
            /\ LineOf(st10_call.got[1]) # DeviceId)
           => st10_call.raised = "ST10ControllerError"
        /\ (Len(st10_call.got) = 0 \/ ~IsLine(st10_call.got[1])
                \/ LineOf(st10_call.got[1]) # DeviceId)
           => /\ st10_call.raised # ""
              /\ ~st10.ready
              /\ \A i \in 1..Len(st10_call.written) :
                    st10_call.written[i].op \notin HomingCommands

C22_Witness ==
    /\ st10_call.op = "__init__"
    /\ st10_call.got = <<Bytes(<<"x", CR>>)>>
    /\ st10_call.raised = "ST10ControllerError"
    /\ st10_call.written = <<Msg("MV", 0, "")>>

\* The input status line that was read has its value number 3 set.
StatusRead(reply) ==
    /\ IsLine(reply)
    /\ Len(LineOf(reply)) >= 7
    /\ SubSeq(LineOf(reply), 1, 3) = <<"I", "S", "=">>

C24_Classification ==
    (/\ st10_call.op = "_check_response"
     /\ IsLine(st10_call.got[1])) =>
        LET line == LineOf(st10_call.got[1])
        IN  IF line \in {<<"%">>, <<"*">>} THEN st10_call.raised = ""
            ELSE /\ st10_call.raised = "ST10ControllerError"
                 /\ st10_call.detail =
                      IF line # <<>> /\ line[1] = "?" THEN "device error"
                      ELSE "unexpected response"

\* C25: a move to a target whose angle is in [0, 270] commands the step
\* nearest to steps_per_rotation * angle / 360; a target outside [0, 270] or
\* an unknown preset raises ValueError with nothing written or read.
C25_AngleValidation ==
    st10_call.op = "_move_to" =>
        LET target == st10_call.target
            known == target.preset = "" \/ target.preset \in DOMAIN ANGLE_PRESETS
            angle == IF target.preset = "" THEN target.angle
                     ELSE IF known THEN ANGLE_PRESETS[target.preset] ELSE 0
            off(n) == 360 * AngleUnit * n - STEPS_PER_ROTATION * angle
        IN  IF known /\ angle >= 0 /\ angle <= 270 * AngleUnit
            THEN /\ Len(st10_call.written) = 1
                 /\ st10_call.written[1].op = "FP"
                 /\ 2 * off(st10_call.written[1].n) <= 360 * AngleUnit
                 /\ 2 * off(st10_call.written[1].n) >= -360 * AngleUnit
                 /\ \A i \in 1..Len(st10_call.thrown) :
                       st10_call.thrown[i] # "ValueError"
            ELSE /\ st10_call.thrown = <<"ValueError">>
                 /\ st10_call.written = <<>>
                 /\ st10_call.got = <<>>

C25_Witness ==
    /\ st10_call.op = "_move_to"
    /\ st10_call.target = [preset |-> "", angle |-> 905]
    /\ st10_call.written = <<Msg("FP", 12771, "")>>

\* C26: however wait_until_stopped(timeout) ends, the serial read timeout is
\* what it was before the call; the sentinel is read under the timeout given.
C26_TimeoutRestored ==
    st10_call.op = "wait_until_stopped" =>
        /\ st10.timeout = st10_call.before.timeout
        /\ Len(st10_call.timeouts) >= 1 =>
              st10_call.timeouts[1] = st10_call.before.timeout
        /\ Len(st10_call.timeouts) = 2 =>
              st10_call.timeouts[2] = st10_call.wait

C26_Witness ==
    /\ st10_call.op = "wait_until_stopped"
    /\ st10_call.raised = "SerialTimeoutException"
    /\ Len(st10_call.timeouts) = 2
    /\ st10_call.timeouts[2] # st10_call.before.timeout
    /\ st10.timeout = st10_call.before.timeout

\* C27: wait_until_stopped_async asks the device for the sentinel once and
\* returns without reading it; the reader thread publishes stepper.move.end
\* once when the line it reads is the sentinel, not otherwise, and changes
\* nothing else of the controller.
C27_AsyncWait ==
    /\ st10_call.op = "wait_until_stopped_async" =>
          /\ st10_call.written = <<Msg("SS", 0, "Z")>>
          /\ Len(st10_call.got) <= 1
          /\ st10_call.ended = 0
          /\ st10.pending <=> (st10_call.raised = "")
    /\ st10_call.op = "_process_read" =>
          /\ st10_call.ended =
               IF st10_call.got[1] = Bytes(<<"Z", CR>>) THEN 1 ELSE 0
          /\ st10.pending <=> (st10_call.ended = 0)
          /\ st10_call.written = <<>>
          /\ st10_call.errors = <<>>
          /\ st10_call.raised = ""
          /\ [st10 EXCEPT !.pending = TRUE] = st10_call.before

C27_Witness ==
    /\ st10_call.op = "_process_read"
    /\ st10_call.before.pending
    /\ st10_call.ended = 1
    /\ ~st10.pending

\* C28: destroying the controller attempts the move to the nadir preset, and
\* whatever that move raises is logged and does not leave the destructor.
C28_Shutdown ==
    st10_call.op = "__del__" =>
        /\ st10_call.raised = ""
        /\ st10_call.logged = st10_call.thrown
        /\ Len(st10_call.written) = 1
        /\ st10_call.written[1].op = "FP"
        /\ 360 * AngleUnit * st10_call.written[1].n
             = STEPS_PER_ROTATION * ANGLE_PRESETS.nadir

C28_Witness ==
    /\ st10_call.op = "__del__"
    /\ st10_call.thrown = <<"SerialTimeoutException">>
    /\ st10_call.raised = ""

\* C29: when a move, stop or notify-on-stopped request from the bus raises,
\* the exception does not reach the publisher and one error event carrying
\* it is published; no error event is published otherwise.
C29_RuntimeFailures ==
    st10_call.op \in {"_move_to", "_stop_moving", "_notify_on_stopped"} =>
        /\ st10_call.raised = ""
        /\ st10_call.errors = st10_call.thrown
        /\ Len(st10_call.errors) <= 1

C29_Witness ==
    /\ st10_call.op = "_move_to"
    /\ st10_call.thrown = <<"ST10ControllerError">>
    /\ st10_call.errors = <<"ST10ControllerError">>
    /\ st10_call.raised = ""

C31_UnresolvableClass ==
    (last.op = "open" /\ last.cls \notin DeviceClasses) =>
        /\ raised # ""
        /\ trace = <<>>
        /\ devices = last.pre
        /\ Len(objs) = last.nobjs
        /\ \A d \in 1..Len(objs) : DictGet(devices, objs[d].inst) = d
                                        => objs[d].closes = 0

C31_Witness ==
    /\ last.op = "open"
    /\ last.cls \notin DeviceClasses
    /\ DictHas(last.pre, last.inst)
    /\ raised = "AttributeError"

\* The messages of the bus, as the trace names them.
Events == {"closed", "error", "opening", "opened"}

\* C34: the registry holds no device on which close() was attempted, after
\* every request and at the moment each message is delivered.
C34_NoClosedDeviceHeld ==
    /\ \A i \in 1..Len(devices) : objs[devices[i].val].closes = 0
    /\ \A c \in 1..Len(trace) :
          (trace[c].k \in Events /\ trace[c].reg # 0)
              => ClosesBefore(trace[c].reg, c) = 0

\* C35: close() is attempted at most once on each device, and at most one
\* closed message follows each device's construction.
C35_CloseOnce ==
    /\ \A d \in 1..Len(objs) : objs[d].closes <= 1
    /\ \A instance \in Instances :
          Cardinality({i \in At("closed") : trace[i].inst = instance})
              <= Cardinality({d \in 1..Len(objs) : objs[d].inst = instance})
                    - Cardinality(Unclosed(instance))

\* C36, checked under SpecListeners: whenever the opened message of an open
\* is published, the registry holds the device that open constructed.
C36_OpenedImpliesRegistered ==
    \A j \in At("opened"), c \in At("construct") :
        trace[c].dev # 0 => trace[j].reg = trace[c].dev

(***************************************************************************)
(* A further property of the ST10 controller, checked under SpecST10.      *)
(***************************************************************************)
\* C38: a controller whose construction ended in the identity check is never
\* written a motion command, neither by the constructor nor by any call made
\* on the object afterwards, its destruction included.
C38_NoMotionUnidentified ==
    LET unidentified ==
            \/ st10_call.op = "__init__" /\ ~st10.identified
            \/ st10_call.before.exists /\ ~st10_call.before.identified
    IN  unidentified =>
            \A i \in 1..Len(st10_call.written) :
                st10_call.written[i].op \notin {"FL", "FP", "SH6H"}

(***************************************************************************)
(* Liveness of the OPUS state machine, checked under SpecOPUSFair.         *)
(***************************************************************************)
\* C37: a machine that is measuring is eventually connected again, whether
\* a stop or cancel command arrives or only the measurement timer fires.
C37_MeasurementEnds ==
    (machine.state = "measuring") ~> (machine.state = "connected")

C37_Witness ==
    /\ command = "timeout"
    /\ path[1] = "measuring"
    /\ machine.state = "connected"
    /\ ~machine.timer

(***************************************************************************)
(* Properties of HardwareSetsControl, checked under SpecHardwareSets.      *)
(***************************************************************************)
\* The instances the control held as active when the last handler started.
ActiveBefore == DictKeys(hwset_call.before.active)

\* C32: pressing Connect opens exactly the devices of the selected hardware
\* set that are not active with the same instance, class name and params.
C32_ConnectSkipsIdentical ==
    hwset_call.op = "connect" =>
        hwset_call.opened =
            {d \in hwset_call.before.selected :
                ~(/\ d.instance \in ActiveBefore
                  /\ DictItem(hwset_call.before.active, d.instance).args = d)}

C39_CloseReleases ==
    /\ ftsw.closed => (ftsw.socket = "closed" /\ ~ftsw.timer)
    /\ (ftsw_call.before.closed /\ ftsw_call.op # "__init__") =>
          \A i \in 1..Len(ftsw_call.sent) :
              ftsw_call.sent[i] # "getFTSW500State"

\* The last call was a request that was answered with bytes.
Replied ==
    /\ ftsw.exists
    /\ ftsw_call.op \in {"__init__", "timeout", "request"}
    /\ ftsw_call.sent # <<>>
    /\ ftsw_call.reply # RecvTimeout

\* The status the object had stored when the reply arrived.
StoredBefore ==
    IF ftsw_call.op = "__init__" THEN "UNDEFINED" ELSE ftsw_call.before.status

\* C40: a reply publishes one status message when it parses to a status
\* other than the stored one and none otherwise; the stored status is the
\* status published last, UNDEFINED before any; and after each reply the
\* single-shot status timer is started.
C40_StatusNotification ==
    /\ ftsw.status = ftsw.last_published
    /\ Replied =>
          LET new_status == parse_response(ftsw_call.reply).status
          IN  /\ ftsw_call.published =
                     IF new_status # "None" /\ new_status # StoredBefore
                     THEN <<new_status>>
                     ELSE <<>>
              /\ ftsw.timer

====
